---- MODULE Spec2Model ----
(***************************************************************************)
(* Model of backend/evaluation/evaluate.py: the configuration selector     *)
(* get_model_config(), the JSON -> JSONL converter prepare_data() and the  *)
(* evaluation driver main().                                               *)
(*                                                                         *)
(* Text is modelled character by character: a Python str is a sequence of  *)
(* one-character strings, and the one non-ASCII character of the alphabet  *)
(* (e with acute accent) is written "U+00E9".  A file's content is the     *)
(* sequence of the characters written to it.                               *)
(***************************************************************************)
EXTENDS FiniteSets, Integers, Sequences, TLC

\* Longest input array of the dataset that is enumerated.
MaxLen == 2

-----------------------------------------------------------------------------
(* Python / JSON values *)

PyStr(s) == [t |-> "str", s |-> s]
PyInt(n) == [t |-> "int", n |-> n]
PyNone == [t |-> "null"]
PyDict(f) == [t |-> "dict", d |-> f]

EmptyStr == PyStr(<< >>)

\* The spelling of the dictionary keys the dataset uses.
KeyChars ==
  [query    |-> <<"q", "u", "e", "r", "y">>,
   response |-> <<"r", "e", "s", "p", "o", "n", "s", "e">>,
   context  |-> <<"c", "o", "n", "t", "e", "x", "t">>,
   id       |-> <<"i", "d">>]

\* dict.get(key, default)
DictGet(item, key, default) ==
  IF key \in DOMAIN item.d THEN item.d[key] ELSE default

-----------------------------------------------------------------------------
(* json.dumps, with its defaults: ensure_ascii=True, separators ", " and   *)
(* ": ", no indentation.                                                    *)

RECURSIVE Concat(_)
Concat(seqs) ==
  IF seqs = << >> THEN << >> ELSE Head(seqs) \o Concat(Tail(seqs))

Digits == <<"0", "1", "2", "3", "4", "5", "6", "7", "8", "9">>

RECURSIVE IntChars(_)
IntChars(n) ==
  IF n < 10 THEN <<Digits[n + 1]>>
  ELSE IntChars(n \div 10) \o <<Digits[(n % 10) + 1]>>

\* EscapeChar that lets a line feed through as it is.
EscapeChar_RawNewline(c) ==
  CASE c = "\"" -> <<"\\", "\"">>
    [] c = "\\" -> <<"\\", "\\">>
    [] c = "U+00E9" -> <<"\\", "u", "0", "0", "e", "9">>
    [] OTHER -> <<c>>

\* One character of a string, as the encoder writes it.
EscapeChar(c) ==
  CASE c = "\"" -> <<"\\", "\"">>
    [] c = "\\" -> <<"\\", "\\">>
    [] c = "\n" -> <<"\\", "n">>
    [] c = "U+00E9" -> <<"\\", "u", "0", "0", "e", "9">>
    [] OTHER -> <<c>>

EncodeString(s) ==
  <<"\"">> \o Concat([i \in 1..Len(s) |-> EscapeChar(s[i])]) \o <<"\"">>

EncodeValue(v) ==
  CASE v.t = "str" -> EncodeString(v.s)
    [] v.t = "int" -> IntChars(v.n)
    [] v.t = "null" -> <<"n", "u", "l", "l">>

\* A dict is given as the sequence of its <<key, value>> pairs in
\* insertion order, which is the order json.dumps writes them in.
EncodePair(p) == EncodeString(KeyChars[p[1]]) \o <<":", " ">> \o EncodeValue(p[2])

RECURSIVE JoinPairs(_)
JoinPairs(ps) ==
  IF ps = << >> THEN << >>
  ELSE IF Len(ps) = 1 THEN EncodePair(ps[1])
  ELSE EncodePair(ps[1]) \o <<",", " ">> \o JoinPairs(Tail(ps))

dumps(record) == <<"{">> \o JoinPairs(record) \o <<"}">>

-----------------------------------------------------------------------------
(* prepare_data *)

\* MakeRecord that falls back to the query where the context is missing.
MakeRecord_ContextFallback(item) ==
  << <<"query", DictGet(item, "query", EmptyStr)>>,
     <<"response", DictGet(item, "response", EmptyStr)>>,
     <<"context", DictGet(item, "context", DictGet(item, "query", EmptyStr))>> >>

\* The record built for one element of the dataset.
MakeRecord(item) ==
  << <<"query", DictGet(item, "query", EmptyStr)>>,
     <<"response", DictGet(item, "response", EmptyStr)>>,
     <<"context", DictGet(item, "context", EmptyStr)>> >>

\* WriteRecords that writes the newest record first.
RECURSIVE WriteRecords_Reversed(_, _)
WriteRecords_Reversed(data, text) ==
  IF data = << >> THEN [exc |-> "none", text |-> text]
  ELSE IF Head(data).t # "dict" THEN [exc |-> "AttributeError", text |-> text]
  ELSE WriteRecords_Reversed(Tail(data), dumps(MakeRecord(Head(data))) \o <<"\n">> \o text)

\* The loop over the dataset: the text written so far, and the exception
\* that ended the loop, if any.  item.get exists on a dict only.
RECURSIVE WriteRecords(_, _)
WriteRecords(data, text) ==
  IF data = << >> THEN [exc |-> "none", text |-> text]
  ELSE IF Head(data).t # "dict" THEN [exc |-> "AttributeError", text |-> text]
  ELSE WriteRecords(Tail(data), text \o dumps(MakeRecord(Head(data))) \o <<"\n">>)

AbsentFile == [kind |-> "absent"]
MalformedFile == [kind |-> "malformed"]
JsonFile(data) == [kind |-> "json", data |-> data]
NoOutput == [exists |-> FALSE, content |-> << >>]

\* prepare_data(input_path, output_path), given the input file as open()
\* finds it and the output file as it is before the call.
prepare_data(inp, out) ==
  IF inp.kind = "absent"
  THEN [exc |-> "FileNotFoundError", out |-> out, stdout |-> <<"Reading data">>]
  ELSE IF inp.kind = "malformed"
  THEN [exc |-> "JSONDecodeError", out |-> out, stdout |-> <<"Reading data">>]
  ELSE LET w == WriteRecords(inp.data, << >>)
       IN [exc |-> w.exc,
           out |-> [exists |-> TRUE, content |-> w.text],
           stdout |-> <<"Reading data", "Converting records">>]

-----------------------------------------------------------------------------
(* Reading a JSONL file back: the lines of a text, and json.loads of one   *)
(* line (objects whose values are strings, non-negative integers or null). *)

\* The positions of the line feeds of a text.
LineEnds(text) == {i \in 1..Len(text) : text[i] = "\n"}

\* The lines of a text, without their line feeds; what follows the last
\* line feed is a line if it is not empty.
Lines(text) ==
  LET E == LineEnds(text)
      n == Cardinality(E)
      end == [k \in 0..n |->
                IF k = 0 THEN 0
                ELSE CHOOSE i \in E : Cardinality({j \in E : j < i}) = k - 1]
      whole == [k \in 1..n |-> SubSeq(text, end[k - 1] + 1, end[k] - 1)]
  IN IF end[n] < Len(text)
     THEN Append(whole, SubSeq(text, end[n] + 1, Len(text)))
     ELSE whole

ParseFail == [ok |-> FALSE]

Unescape(c) ==
  CASE c = "\"" -> "\""
    [] c = "\\" -> "\\"
    [] c = "n" -> "\n"
    [] OTHER -> "invalid"

\* The characters of a string literal from position i (after the opening
\* quote) up to its closing quote.
RECURSIVE ScanString(_, _, _)
ScanString(s, i, acc) ==
  IF i > Len(s) THEN ParseFail
  ELSE IF s[i] = "\"" THEN [ok |-> TRUE, val |-> acc, next |-> i + 1]
  ELSE IF s[i] = "\n" \/ s[i] = "U+00E9" THEN ParseFail
  ELSE IF s[i] = "\\" THEN
    IF i + 1 > Len(s) THEN ParseFail
    ELSE IF s[i + 1] = "u" THEN
      IF i + 5 <= Len(s) /\ SubSeq(s, i + 2, i + 5) = <<"0", "0", "e", "9">>
      THEN ScanString(s, i + 6, Append(acc, "U+00E9"))
      ELSE ParseFail
    ELSE IF Unescape(s[i + 1]) = "invalid" THEN ParseFail
    ELSE ScanString(s, i + 2, Append(acc, Unescape(s[i + 1])))
  ELSE ScanString(s, i + 1, Append(acc, s[i]))

ParseStringAt(s, i) ==
  IF i <= Len(s) /\ s[i] = "\"" THEN ScanString(s, i + 1, << >>) ELSE ParseFail

IsDigit(c) == \E d \in 1..10 : Digits[d] = c
DigitVal(c) == (CHOOSE d \in 1..10 : Digits[d] = c) - 1

RECURSIVE ScanDigits(_, _, _)
ScanDigits(s, i, n) ==
  IF i <= Len(s) /\ IsDigit(s[i])
  THEN ScanDigits(s, i + 1, 10 * n + DigitVal(s[i]))
  ELSE [ok |-> TRUE, val |-> PyInt(n), next |-> i]

ParseValueAt(s, i) ==
  IF i > Len(s) THEN ParseFail
  ELSE IF s[i] = "\"" THEN
    LET r == ParseStringAt(s, i)
    IN IF r.ok THEN [ok |-> TRUE, val |-> PyStr(r.val), next |-> r.next] ELSE ParseFail
  ELSE IF IsDigit(s[i]) THEN ScanDigits(s, i, 0)
  ELSE IF i + 3 <= Len(s) /\ SubSeq(s, i, i + 3) = <<"n", "u", "l", "l">>
  THEN [ok |-> TRUE, val |-> PyNone, next |-> i + 4]
  ELSE ParseFail

RECURSIVE SkipSpaces(_, _)
SkipSpaces(s, i) ==
  IF i <= Len(s) /\ s[i] = " " THEN SkipSpaces(s, i + 1) ELSE i

\* The members of an object from position i on; the result's val is the
\* sequence of <<key characters, value>> pairs in the order they are read.
RECURSIVE ParseMembers(_, _, _)
ParseMembers(s, i, acc) ==
  LET k == ParseStringAt(s, SkipSpaces(s, i))
  IN IF ~k.ok THEN ParseFail
     ELSE LET c == SkipSpaces(s, k.next)
          IN IF c > Len(s) \/ s[c] # ":" THEN ParseFail
             ELSE LET v == ParseValueAt(s, SkipSpaces(s, c + 1))
                  IN IF ~v.ok THEN ParseFail
                     ELSE LET e == SkipSpaces(s, v.next)
                              more == Append(acc, <<k.val, v.val>>)
                          IN IF e > Len(s) THEN ParseFail
                             ELSE IF s[e] = "," THEN ParseMembers(s, e + 1, more)
                             ELSE IF s[e] = "}" /\ e = Len(s)
                             THEN [ok |-> TRUE, val |-> more]
                             ELSE ParseFail

loads(s) ==
  IF s = << >> \/ Head(s) # "{" THEN ParseFail
  ELSE IF s = <<"{", "}">> THEN [ok |-> TRUE, val |-> << >>]
  ELSE ParseMembers(s, 2, << >>)

\* The keys of a parsed object, and the value it has for a key.
ParsedKeys(obj) == {obj[j][1] : j \in 1..Len(obj)}
ParsedGet(obj, key) ==
  IF \E j \in 1..Len(obj) : obj[j][1] = KeyChars[key]
  THEN obj[CHOOSE j \in 1..Len(obj) : obj[j][1] = KeyChars[key]][2]
  ELSE [t |-> "missing"]

-----------------------------------------------------------------------------
(* get_model_config *)

EnvVars ==
  {"AZURE_OPENAI_ENDPOINT", "AZURE_OPENAI_DEPLOYMENT", "AZURE_OPENAI_API_KEY",
   "AZURE_OPENAI_API_VERSION", "OPENAI_API_KEY", "OPENAI_MODEL"}

\* A variable that is defined holds the empty string or some other string.
EnvValues == {"", "val"}

\* os.environ: the defined variables and their values.
Envs == UNION {[S -> EnvValues] : S \in SUBSET EnvVars}

\* Python's None, which no environment variable holds.
None == "<None>"

\* os.environ.get(key, default)
environ_get(e, key, default) == IF key \in DOMAIN e THEN e[key] ELSE default

\* Truthy that takes every str, the empty one too, for true.
Truthy_Defined(v) == v # None

\* The truth value of a str or None in a condition.
Truthy(v) == v # None /\ v # ""

NoConfig == [variant |-> "none"]

\* get_model_config that looks for the OpenAI key first.
get_model_config_OpenAIFirst(e) ==
  IF Truthy(environ_get(e, "OPENAI_API_KEY", None))
  THEN [exc |-> "none",
        stdout |-> <<"Using OpenAI Configuration">>,
        config |-> [variant |-> "OpenAIModelConfiguration",
                    model |-> environ_get(e, "OPENAI_MODEL", "gpt-4"),
                    api_key |-> e["OPENAI_API_KEY"]]]
  ELSE IF Truthy(environ_get(e, "AZURE_OPENAI_ENDPOINT", None))
  THEN [exc |-> "none",
        stdout |-> <<"Using Azure OpenAI Configuration">>,
        config |-> [variant |-> "AzureOpenAIModelConfiguration",
                    azure_endpoint |-> e["AZURE_OPENAI_ENDPOINT"],
                    azure_deployment |-> environ_get(e, "AZURE_OPENAI_DEPLOYMENT", "gpt-4"),
                    api_key |-> environ_get(e, "AZURE_OPENAI_API_KEY", None),
                    api_version |-> environ_get(e, "AZURE_OPENAI_API_VERSION", "2024-02-15-preview")]]
  ELSE [exc |-> "ValueError", stdout |-> << >>, config |-> NoConfig]

get_model_config(e) ==
  IF Truthy(environ_get(e, "AZURE_OPENAI_ENDPOINT", None))
  THEN [exc |-> "none",
        stdout |-> <<"Using Azure OpenAI Configuration">>,
        config |-> [variant |-> "AzureOpenAIModelConfiguration",
                    azure_endpoint |-> e["AZURE_OPENAI_ENDPOINT"],
                    azure_deployment |-> environ_get(e, "AZURE_OPENAI_DEPLOYMENT", "gpt-4"),
                    api_key |-> environ_get(e, "AZURE_OPENAI_API_KEY", None),
                    api_version |-> environ_get(e, "AZURE_OPENAI_API_VERSION", "2024-02-15-preview")]]
  ELSE IF Truthy(environ_get(e, "OPENAI_API_KEY", None))
  THEN [exc |-> "none",
        stdout |-> <<"Using OpenAI Configuration">>,
        config |-> [variant |-> "OpenAIModelConfiguration",
                    model |-> environ_get(e, "OPENAI_MODEL", "gpt-4"),
                    api_key |-> e["OPENAI_API_KEY"]]]
  ELSE [exc |-> "ValueError", stdout |-> << >>, config |-> NoConfig]

-----------------------------------------------------------------------------
(* The datasets that are enumerated *)

ItemKeys == {"query", "response", "context", "id"}
KeyIdx == [query |-> 0, response |-> 1, context |-> 2, id |-> 3]

Vals ==
  <<EmptyStr, PyStr(<<"a">>), PyStr(<<"\"", "\\">>), PyStr(<<"\n", "U+00E9">>),
    PyInt(42), PyNone>>

\* The object with the keys S; r selects which values the keys carry.
Object(S, r) == PyDict([k \in S |-> Vals[((KeyIdx[k] + 3 * r) % 6) + 1]])

Objects == {Object(S, r) : S \in SUBSET ItemKeys, r \in 0..1}

\* Array elements that are not objects.
Scalars == {PyStr(<<"a">>), PyInt(7), PyNone}

Items == Objects \cup Scalars

Arrays == UNION {[1..n -> Items] : n \in 0..MaxLen}

\* The datasets main() is run on: arrays of the record of the scenario
\* {"query": .., "response": ..} and of an element that is no object.
MainItems == {Object({"query", "response"}, 0), PyInt(7)}
MainArrays == UNION {[1..n -> MainItems] : n \in 0..MaxLen}

\* What a previous writer may have left in the output file.
StaleOutput == [exists |-> TRUE, content |-> <<"o", "l", "d", "\n">>]

-----------------------------------------------------------------------------
(* State *)

VARIABLES
  pc,            \* the position of the run
  env,           \* os.environ
  inputFile,     \* test_dataset.json
  tempFile,      \* the temporary .jsonl file (the output path of prepare_data)
  outputWritten, \* evaluate() wrote evaluation_results.json
  stdout,        \* the lines printed, in order
  exc,           \* the exception in flight or raised: its type and its origin
  modelConfig,   \* the configuration get_model_config returned
  evaluators,    \* the evaluators constructed
  calls,         \* how often each callee of main() was invoked
  result         \* the value evaluate() returned

vars == <<pc, env, inputFile, tempFile, outputWritten, stdout, exc,
          modelConfig, evaluators, calls, result>>

NoExc == [type |-> "none", from |-> "none"]
Raised(type, from) == [type |-> type, from |-> from]

NoCalls ==
  [get_model_config |-> 0, RelevanceEvaluator |-> 0, CoherenceEvaluator |-> 0,
   NamedTemporaryFile |-> 0, prepare_data |-> 0, evaluate |-> 0, remove |-> 0]

Called(f) == [calls EXCEPT ![f] = @ + 1]

NoResult == [returned |-> FALSE]

\* What evaluate() may return: a mapping with or without "metrics" and
\* with or without "studio_url".
Results ==
  {[returned |-> TRUE, metrics |-> m, studio_url |-> u] :
     m \in BOOLEAN, u \in {"absent", "url"}}

Blank ==
  /\ outputWritten = FALSE
  /\ stdout = << >>
  /\ exc = NoExc
  /\ modelConfig = NoConfig
  /\ evaluators = {}
  /\ calls = NoCalls
  /\ result = NoResult

-----------------------------------------------------------------------------
(* get_model_config() on its own, for every environment *)

InitConfig ==
  /\ pc = "config_call"
  /\ env \in Envs
  /\ inputFile = AbsentFile
  /\ tempFile = NoOutput
  /\ Blank

CallGetModelConfig ==
  /\ pc = "config_call"
  /\ LET r == get_model_config(env)
     IN /\ modelConfig' = r.config
        /\ stdout' = stdout \o r.stdout
        /\ exc' = IF r.exc = "none" THEN NoExc ELSE Raised(r.exc, "get_model_config")
  /\ calls' = Called("get_model_config")
  /\ pc' = "config_done"
  /\ UNCHANGED <<env, inputFile, tempFile, outputWritten, evaluators, result>>

NextConfig == CallGetModelConfig

SpecConfig == InitConfig /\ [][NextConfig]_vars

-----------------------------------------------------------------------------
(* prepare_data() on its own, for every dataset *)

InitPrepare ==
  /\ pc = "prepare_call"
  /\ env \in {<< >>}
  /\ inputFile \in {AbsentFile, MalformedFile} \cup {JsonFile(d) : d \in Arrays}
  /\ tempFile \in {NoOutput, StaleOutput}
  /\ Blank

CallPrepareData ==
  /\ pc = "prepare_call"
  /\ LET r == prepare_data(inputFile, tempFile)
     IN /\ tempFile' = r.out
        /\ stdout' = stdout \o r.stdout
        /\ exc' = IF r.exc = "none" THEN NoExc ELSE Raised(r.exc, "prepare_data")
  /\ calls' = Called("prepare_data")
  /\ pc' = "prepare_done"
  /\ UNCHANGED <<env, inputFile, outputWritten, modelConfig, evaluators, result>>

NextPrepare == CallPrepareData

SpecPrepare == InitPrepare /\ [][NextPrepare]_vars

-----------------------------------------------------------------------------
(* Properties of get_model_config (under SpecConfig) *)

IsSet(k) == k \in DOMAIN env
NonEmpty(k) == k \in DOMAIN env /\ env[k] # ""

IsAzure == modelConfig.variant = "AzureOpenAIModelConfiguration"
IsOpenAI == modelConfig.variant = "OpenAIModelConfiguration"

AzureFields == {"variant", "azure_endpoint", "azure_deployment", "api_key", "api_version"}
OpenAIFields == {"variant", "model", "api_key"}

\* A successful call returned one configuration, of one of the two variants.
ExactlyOneVariant ==
  exc = NoExc =>
    \/ IsAzure /\ DOMAIN modelConfig = AzureFields
    \/ IsOpenAI /\ DOMAIN modelConfig = OpenAIFields

-----------------------------------------------------------------------------
(* Properties of prepare_data (under SpecPrepare) *)

RecordKeys == {"query", "response", "context"}

IsArrayInput == inputFile.kind = "json"
AllObjects(data) == \A i \in 1..Len(data) : data[i].t = "dict"

\* The lines of the output file.
OutLines == Lines(tempFile.content)

\* A line is one JSON object with exactly the three keys.
IsRecordLine(line) ==
  LET r == loads(line)
  IN /\ r.ok
     /\ Len(r.val) = 3
     /\ ParsedKeys(r.val) = {KeyChars[k] : k \in RecordKeys}

\* C5 as stated: for any JSON array input the output has exactly as many
\* lines as the array has elements, and every line is a single-line JSON
\* object whose keys are exactly query, response and context.
C5_AsStated ==
  (pc = "prepare_done" /\ IsArrayInput) =>
    LET out == OutLines
    IN /\ Len(out) = Len(inputFile.data)
       /\ \A i \in 1..Len(out) : IsRecordLine(out[i])

\* C5 (amended): for any JSON array input whose elements are all objects,
\* the output has exactly as many lines as the array has elements, and every
\* line is a single-line JSON object whose keys are exactly query, response
\* and context.
C5_OneLinePerElement ==
  (pc = "prepare_done" /\ IsArrayInput /\ AllObjects(inputFile.data)) =>
    LET out == OutLines
    IN /\ Len(out) = Len(inputFile.data)
       /\ \A i \in 1..Len(out) : IsRecordLine(out[i])

\* Two objects were converted, the first with a line feed in a value.
C5_Witness ==
  /\ pc = "prepare_done"
  /\ IsArrayInput
  /\ Len(inputFile.data) >= 2
  /\ AllObjects(inputFile.data)
  /\ inputFile.data[1] = Object(ItemKeys, 1)
  /\ Len(OutLines) = Len(inputFile.data)

\* The elements a record was written for: those up to the first that is
\* not an object.
Converted(data) == {i \in 1..Len(data) : \A j \in 1..i : data[j].t = "dict"}

\* C6: the record written for an element has the empty string in every one
\* of query, response and context that the element lacks, whatever else the
\* element carries.
C6_DefaultFill ==
  (pc = "prepare_done" /\ IsArrayInput) =>
    LET out == OutLines
    IN \A i \in Converted(inputFile.data) :
         /\ i <= Len(out)
         /\ LET r == loads(out[i])
            IN /\ r.ok
               /\ \A k \in RecordKeys \ DOMAIN inputFile.data[i].d :
                    ParsedGet(r.val, k) = EmptyStr

\* An element that lacks the context, and one that lacks all three fields
\* and carries another one, were converted.
C6_Witness ==
  /\ pc = "prepare_done"
  /\ IsArrayInput
  /\ Len(inputFile.data) >= 2
  /\ inputFile.data[1] = Object({"query", "response"}, 0)
  /\ inputFile.data[2] = Object({"id"}, 0)
  /\ Len(OutLines) = Len(inputFile.data)

\* C7: for an array of objects, parsing the i-th line back gives, for each
\* of query, response and context, the value of the i-th element, or the
\* empty string where the element lacks the field.
C7_RoundTrip ==
  (pc = "prepare_done" /\ IsArrayInput /\ AllObjects(inputFile.data)) =>
    LET out == OutLines
    IN /\ Len(out) = Len(inputFile.data)
       /\ \A i \in 1..Len(inputFile.data) :
            LET r == loads(out[i])
            IN /\ r.ok
               /\ \A k \in RecordKeys :
                    ParsedGet(r.val, k) = DictGet(inputFile.data[i], k, EmptyStr)

\* Two different objects with escaped characters in their values were
\* converted.
C7_Witness ==
  /\ pc = "prepare_done"
  /\ IsArrayInput
  /\ Len(inputFile.data) >= 2
  /\ inputFile.data[1] = Object(RecordKeys, 0)
  /\ inputFile.data[2] = Object(RecordKeys, 1)
  /\ exc = NoExc
  /\ tempFile.exists

-----------------------------------------------------------------------------
(* main() *)

Init ==
  /\ pc = "start"
  /\ env \in Envs
  /\ inputFile \in {AbsentFile, MalformedFile} \cup {JsonFile(d) : d \in MainArrays}
  /\ tempFile = NoOutput
  /\ Blank

\* CheckInput that prints the error and goes on.
CheckInput_NoReturn ==
  /\ pc = "start"
  /\ IF inputFile.kind = "absent"
     THEN stdout' = Append(stdout, "Error: Input file not found")
     ELSE stdout' = stdout
  /\ pc' = "get_model_config"
  /\ UNCHANGED <<env, inputFile, tempFile, outputWritten, exc, modelConfig,
                 evaluators, calls, result>>

\* if not os.path.exists(INPUT_FILE): print, return
CheckInput ==
  /\ pc = "start"
  /\ IF inputFile.kind = "absent"
     THEN /\ stdout' = Append(stdout, "Error: Input file not found")
          /\ pc' = "returned"
     ELSE /\ stdout' = stdout
          /\ pc' = "get_model_config"
  /\ UNCHANGED <<env, inputFile, tempFile, outputWritten, exc, modelConfig,
                 evaluators, calls, result>>

\* GetConfig that prints the diagnostic and goes on.
GetConfig_NoReturn ==
  /\ pc = "get_model_config"
  /\ calls' = Called("get_model_config")
  /\ LET r == get_model_config(env)
     IN IF r.exc = "ValueError"
        THEN /\ stdout' = stdout \o r.stdout \o <<"Error: ValueError", "Please set credentials">>
             /\ modelConfig' = modelConfig
             /\ pc' = "evaluators"
        ELSE /\ stdout' = stdout \o r.stdout
             /\ modelConfig' = r.config
             /\ pc' = "evaluators"
  /\ UNCHANGED <<env, inputFile, tempFile, outputWritten, exc, evaluators, result>>

\* try: model_config = get_model_config()  except ValueError: print, return
GetConfig ==
  /\ pc = "get_model_config"
  /\ calls' = Called("get_model_config")
  /\ LET r == get_model_config(env)
     IN IF r.exc = "ValueError"
        THEN /\ stdout' = stdout \o r.stdout \o <<"Error: ValueError", "Please set credentials">>
             /\ modelConfig' = modelConfig
             /\ pc' = "returned"
        ELSE /\ stdout' = stdout \o r.stdout
             /\ modelConfig' = r.config
             /\ pc' = "evaluators"
  /\ UNCHANGED <<env, inputFile, tempFile, outputWritten, exc, evaluators, result>>

\* RelevanceEvaluator(model_config), then CoherenceEvaluator(model_config);
\* either constructor of the library may raise.
InitEvaluators ==
  /\ pc = "evaluators"
  /\ \/ /\ evaluators' = {"relevance", "coherence"}
        /\ calls' = [calls EXCEPT !.RelevanceEvaluator = @ + 1,
                                  !.CoherenceEvaluator = @ + 1]
        /\ exc' = exc
        /\ pc' = "mktemp"
     \/ /\ evaluators' = {}
        /\ calls' = Called("RelevanceEvaluator")
        /\ exc' = Raised("EvaluatorError", "RelevanceEvaluator")
        /\ pc' = "raised"
     \/ /\ evaluators' = {"relevance"}
        /\ calls' = [calls EXCEPT !.RelevanceEvaluator = @ + 1,
                                  !.CoherenceEvaluator = @ + 1]
        /\ exc' = Raised("EvaluatorError", "CoherenceEvaluator")
        /\ pc' = "raised"
  /\ UNCHANGED <<env, inputFile, tempFile, outputWritten, stdout, modelConfig, result>>

\* with tempfile.NamedTemporaryFile(..., delete=False): the file is created
\* empty and stays, or the creation fails.
CreateTemp ==
  /\ pc = "mktemp"
  /\ calls' = Called("NamedTemporaryFile")
  /\ \/ /\ tempFile' = [exists |-> TRUE, content |-> << >>]
        /\ exc' = exc
        /\ pc' = "prepare_data"
     \/ /\ tempFile' = tempFile
        /\ exc' = Raised("OSError", "NamedTemporaryFile")
        /\ pc' = "raised"
  /\ UNCHANGED <<env, inputFile, outputWritten, stdout, modelConfig, evaluators, result>>

\* prepare_data(INPUT_FILE, temp_jsonl_path); print("Starting evaluation...")
\* The input file may have gone since main() looked for it.
PrepareData ==
  /\ pc = "prepare_data"
  /\ calls' = Called("prepare_data")
  /\ \E seen \in {inputFile, AbsentFile} :
       LET r == prepare_data(seen, tempFile)
       IN /\ tempFile' = r.out
          /\ IF r.exc = "none"
             THEN /\ stdout' = stdout \o r.stdout \o <<"Starting evaluation...">>
                  /\ exc' = exc
                  /\ pc' = "evaluate"
             ELSE /\ stdout' = stdout \o r.stdout
                  /\ exc' = Raised(r.exc, "prepare_data")
                  /\ pc' = "finally"
  /\ UNCHANGED <<env, inputFile, outputWritten, modelConfig, evaluators, result>>

\* Evaluate that, when the library raises, converts the data again and
\* tries once more.
Evaluate_Retry ==
  /\ pc = "evaluate"
  /\ calls' = Called("evaluate")
  /\ \/ /\ result' \in Results
        /\ outputWritten' = TRUE
        /\ exc' = exc
        /\ pc' = "print"
     \/ /\ result' = result
        /\ outputWritten' \in BOOLEAN
        /\ IF calls.evaluate = 0
           THEN exc' = exc /\ pc' = "prepare_data"
           ELSE exc' = Raised("EvaluationError", "evaluate") /\ pc' = "finally"
  /\ UNCHANGED <<env, inputFile, tempFile, stdout, modelConfig, evaluators>>

\* result = evaluate(data=temp_jsonl_path, ..., output_path=OUTPUT_FILE):
\* the library returns a result and has written the output file, or it
\* raises, having written the output file or not.
Evaluate ==
  /\ pc = "evaluate"
  /\ calls' = Called("evaluate")
  /\ \/ /\ result' \in Results
        /\ outputWritten' = TRUE
        /\ exc' = exc
        /\ pc' = "print"
     \/ /\ result' = result
        /\ outputWritten' \in BOOLEAN
        /\ exc' = Raised("EvaluationError", "evaluate")
        /\ pc' = "finally"
  /\ UNCHANGED <<env, inputFile, tempFile, stdout, modelConfig, evaluators>>

\* The prints after evaluate(); result["metrics"] raises KeyError when the
\* result has no metrics.
PrintResults ==
  /\ pc = "print"
  /\ IF result.metrics
     THEN /\ stdout' = stdout \o
                <<"Evaluation Complete!", "---", "Aggregate Metrics:", "metrics", "---",
                  "Detailed results saved",
                  IF result.studio_url = "absent" THEN "Studio URL: N/A" ELSE "Studio URL: url">>
          /\ exc' = exc
     ELSE /\ stdout' = stdout \o <<"Evaluation Complete!", "---", "Aggregate Metrics:">>
          /\ exc' = Raised("KeyError", "print")
  /\ pc' = "finally"
  /\ UNCHANGED <<env, inputFile, tempFile, outputWritten, modelConfig, evaluators,
                 calls, result>>

\* Finally that removes the file after a successful run only.
Finally_OnSuccessOnly ==
  /\ pc = "finally"
  /\ IF tempFile.exists /\ exc = NoExc
     THEN /\ tempFile' = NoOutput
          /\ calls' = Called("remove")
     ELSE /\ tempFile' = tempFile
          /\ calls' = calls
  /\ pc' = IF exc = NoExc THEN "returned" ELSE "raised"
  /\ UNCHANGED <<env, inputFile, outputWritten, stdout, exc, modelConfig,
                 evaluators, result>>

\* Finally that returns from main() whatever happened.
Finally_Swallow ==
  /\ pc = "finally"
  /\ IF tempFile.exists
     THEN /\ tempFile' = NoOutput
          /\ calls' = Called("remove")
     ELSE /\ tempFile' = tempFile
          /\ calls' = calls
  /\ pc' = "returned"
  /\ UNCHANGED <<env, inputFile, outputWritten, stdout, exc, modelConfig,
                 evaluators, result>>

\* finally: if os.path.exists(temp_jsonl_path): os.remove(temp_jsonl_path)
\* and then the exception in flight, if any, leaves main().
Finally ==
  /\ pc = "finally"
  /\ IF tempFile.exists
     THEN /\ tempFile' = NoOutput
          /\ calls' = Called("remove")
     ELSE /\ tempFile' = tempFile
          /\ calls' = calls
  /\ pc' = IF exc = NoExc THEN "returned" ELSE "raised"
  /\ UNCHANGED <<env, inputFile, outputWritten, stdout, exc, modelConfig,
                 evaluators, result>>

Next ==
  \/ CheckInput
  \/ GetConfig
  \/ InitEvaluators
  \/ CreateTemp
  \/ PrepareData
  \/ Evaluate
  \/ PrintResults
  \/ Finally

Spec == Init /\ [][Next]_vars

-----------------------------------------------------------------------------
(* Properties of main() (under Spec) *)

Finished == pc \in {"returned", "raised"}

\* The temporary file was created in this run.
TempCreated == calls.NamedTemporaryFile = 1 /\ exc.from # "NamedTemporaryFile"

\* C1: in a run that created the temporary file, the file does not exist
\* when main() has finished, by a return or by an exception.
C1_TempFileRemoved ==
  (Finished /\ TempCreated) => ~tempFile.exists

\* main() ended with the exception evaluate() raised, and removed the file.
C1_Witness ==
  /\ pc = "raised"
  /\ exc.from = "evaluate"
  /\ TempCreated
  /\ calls.remove = 1
  /\ ~tempFile.exists

\* C2: with the input file present and neither AZURE_OPENAI_ENDPOINT nor
\* OPENAI_API_KEY set, get_model_config raises, main() prints the
\* diagnostic and returns, and the run never creates the temporary file,
\* never writes the output file and never invokes evaluate().
C2_NoCredentials ==
  (inputFile.kind # "absent" /\ ~IsSet("AZURE_OPENAI_ENDPOINT")
     /\ ~IsSet("OPENAI_API_KEY")) =>
    /\ pc \in {"start", "get_model_config", "returned"}
    /\ exc = NoExc
    /\ ~tempFile.exists
    /\ calls.NamedTemporaryFile = 0
    /\ ~outputWritten
    /\ calls.evaluate = 0
    /\ pc = "returned" =>
         /\ calls.get_model_config = 1
         /\ get_model_config(env).exc = "ValueError"
         /\ stdout = <<"Error: ValueError", "Please set credentials">>

\* Such a run has returned.
C2_Witness ==
  /\ inputFile.kind # "absent"
  /\ ~IsSet("AZURE_OPENAI_ENDPOINT")
  /\ ~IsSet("OPENAI_API_KEY")
  /\ pc = "returned"
  /\ calls.get_model_config = 1

\* C4: with the input file missing, main() prints the error, returns
\* without raising and does nothing else: no call of get_model_config, no
\* evaluator, no temporary file, no call of evaluate(), no output file.
C4_MissingInput ==
  inputFile.kind = "absent" =>
    /\ pc \in {"start", "returned"}
    /\ exc = NoExc
    /\ calls = NoCalls
    /\ modelConfig = NoConfig
    /\ evaluators = {}
    /\ ~tempFile.exists
    /\ ~outputWritten
    /\ result = NoResult
    /\ stdout = IF pc = "returned" THEN <<"Error: Input file not found">> ELSE << >>

\* Such a run has returned.
C4_Witness ==
  /\ inputFile.kind = "absent"
  /\ pc = "returned"
  /\ stdout = <<"Error: Input file not found">>

Printed(line) == \E i \in 1..Len(stdout) : stdout[i] = line

\* C8: main() returns after a failure only for the missing input file and
\* the missing credentials; an exception of prepare_data or of evaluate()
\* leaves main().  After an exception of prepare_data, evaluate() is not
\* invoked; after one of evaluate(), "Evaluation Complete!" is not printed;
\* in both cases the temporary file is gone when the exception leaves.
C8_OtherFailuresPropagate ==
  /\ pc = "returned" =>
       /\ exc = NoExc
       /\ calls.evaluate = 0 =>
            inputFile.kind = "absent" \/ get_model_config(env).exc = "ValueError"
  /\ exc.from = "prepare_data" =>
       /\ pc \in {"finally", "raised"}
       /\ calls.evaluate = 0
       /\ pc = "raised" => ~tempFile.exists
  /\ exc.from = "evaluate" =>
       /\ pc \in {"finally", "raised"}
       /\ ~Printed("Evaluation Complete!")
       /\ pc = "raised" => ~tempFile.exists

\* The JSON error of prepare_data has left main(), the file removed.
C8_Witness ==
  /\ pc = "raised"
  /\ exc = Raised("JSONDecodeError", "prepare_data")
  /\ calls.remove = 1
  /\ calls.evaluate = 0

Rank ==
  [start |-> 0, get_model_config |-> 1, evaluators |-> 2, mktemp |-> 3,
   prepare_data |-> 4, evaluate |-> 5, print |-> 6, finally |-> 7,
   returned |-> 8, raised |-> 8]

\* What has happened before the steps taken so far.
InOrder ==
  /\ \A f \in DOMAIN calls : calls[f] <= 1
  /\ calls.evaluate = 1 =>
       /\ inputFile.kind # "absent"
       /\ calls.get_model_config = 1
       /\ modelConfig # NoConfig
       /\ TempCreated
       /\ calls.prepare_data = 1
       /\ exc.from # "prepare_data"
  /\ calls.NamedTemporaryFile = 1 =>
       /\ modelConfig # NoConfig
       /\ evaluators = {"relevance", "coherence"}

\* C9: every step of a run moves to a later position; evaluate() is invoked
\* at most once, and only after the input file was found, get_model_config
\* returned a configuration, the temporary file was created and
\* prepare_data completed; the temporary file is created only after the
\* configuration and both evaluators exist; no callee is invoked twice.
C9_StrictlyForward ==
  [][Rank[pc'] > Rank[pc] /\ InOrder']_vars

\* A run went through every step and returned.
C9_Witness ==
  /\ pc = "returned"
  /\ calls = [f \in DOMAIN calls |-> 1]
  /\ result.returned
  /\ Printed("Studio URL: N/A")

====
